---- MODULE Spec2Model ----
(***************************************************************************)
(* Model of src/app.js, the presentation runner.                           *)
(*                                                                         *)
(* The file holds two self-invoking async functions that both run when the *)
(* script is loaded: the first runner (lines 2-201) and the hardened       *)
(* runner (lines 204-509).  Each fetches content.json on its own, renders  *)
(* into the same #stage, keeps its own `current`, `slideEls` and           *)
(* `cancelRequested`, and registers its own listeners on the same buttons  *)
(* and on window.  Runner 1 is the first runner, runner 2 the hardened     *)
(* one.  Every await (fetch, setTimeout, html2canvas) is a point where     *)
(* other callbacks may run; the code between two awaits is one action.     *)
(***************************************************************************)
EXTENDS Integers, Sequences, FiniteSets, TLC

(* ------------------------------ bounds --------------------------------- *)

\* Largest number of slides of a deck in content.json.
MaxSlides == 2

\* Largest number of export runs one runner has in flight at once.
MaxStacked == 1

\* Largest number of deferred overlay-hide timers pending at once.
MaxTimers == 2

\* Largest number of temp containers in body at once.
MaxTemps == 2

\* Largest number of fatal reports.
MaxFatals == 2

(* --------------------------- the environment --------------------------- *)

Runners == {1, 2}

\* The elements of index.html the script looks up, the element the page may
\* show inside #stage before the deck is rendered, and the two export
\* libraries on window.
Elements ==
    {"stage", "loading", "prevBtn", "nextBtn", "counter", "progressFill",
     "topbar", "exportPdf", "exportOverlay", "exportStatus", "cancelExport",
     "jspdf", "html2canvas"}

\* The pages checked: everything present, or one element missing.
Pages == {Elements} \cup {Elements \ {e} : e \in Elements}

Titles == {"", "Deck"}

\* What fetch gives for content.json: the request fails (net = FALSE), or a
\* response with a status (ok) and a body that is JSON or not, the JSON being
\* a deck of n slides (n = 0: slides absent or empty) titled title.
Decks == [net : {TRUE}, ok : {TRUE}, json : {TRUE}, n : 0..MaxSlides, title : Titles]

Failures ==
    {[net |-> FALSE, ok |-> FALSE, json |-> FALSE, n |-> 0, title |-> ""],
     [net |-> TRUE, ok |-> FALSE, json |-> FALSE, n |-> 0, title |-> ""],
     [net |-> TRUE, ok |-> FALSE, json |-> TRUE, n |-> 1, title |-> ""],
     [net |-> TRUE, ok |-> TRUE, json |-> FALSE, n |-> 0, title |-> ""]}

Responses == Decks \cup Failures

\* A full page with every response; a page missing one element with the
\* largest titled deck.
Environments ==
    [page : {Elements}, resp : Responses]
        \cup [page : Pages, resp : {[net |-> TRUE, ok |-> TRUE, json |-> TRUE,
                                     n |-> MaxSlides, title |-> "Deck"]}]

(* -------------------------------- nodes -------------------------------- *)

\* A DOM node: <<kind, runner that created it, data-index>>.
SlideNode(r, idx) == <<"slide", r, idx>>
LoadingNode == <<"loading", 0, 0>>

IsSlide(node) == node[1] = "slide"
dataIndex(node) == node[3]

Range(s) == {s[i] : i \in 1..Len(s)}

SelectSlides(s) == SelectSeq(s, IsSlide)

VARIABLES
    env,              \* the page and the response (fixed)
    pc,               \* per runner: "loading", "aborted", "fatal", "ready"
    order,            \* the runners in the order they registered listeners
    steps,            \* per runner: the parts of its set-up that have run
    gotoSlide,        \* window.gotoSlide: 0 (unset) or the runner whose goto it is
    stage,            \* the children of #stage, in order
    slideEls,         \* per runner: its slideEls
    current,          \* per runner: its current
    visible,          \* the nodes whose class list holds 'visible'
    counter,          \* #counter's text
    progress,         \* #progressFill's width
    cancelRequested,  \* per runner: its cancelRequested
    runs,             \* per runner: its export runs, a sequence of records
    temps,            \* the number of temp containers appended to body
    exporting,        \* body's class list holds 'exporting'
    overlayHidden,    \* #exportOverlay's class list holds 'hidden'
    hideTimers,       \* pending setTimeout(..., 400) callbacks
    fatals,           \* the messages showFatal was called with, in order
    uncaught,         \* where an exception left a callback uncaught
    fatalBoxes,       \* the messages of the #fatalError boxes in body, in order
    defaultPrevented, \* whether the last keydown event had preventDefault called
    body,             \* the body of the slide being rendered
    renderer,         \* the runner rendering it
    pos,              \* the number of its items the forEach has visited
    wrap,             \* the children of contentWrap, in order
    ul,               \* the list items are added to: its place in wrap, or 0
    themeName,        \* content.theme: a string, or Absent
    themeRunner,      \* the runner resolving it
    themePc,          \* "resolve", "contrast", "render", "thrown"
    accents           \* the values of --accent and --accent-2

deckVars ==
    <<env, pc, order, steps, gotoSlide, stage, slideEls, current, visible,
      counter, progress, cancelRequested, runs, temps, exporting,
      overlayHidden, hideTimers, fatals, uncaught, fatalBoxes,
      defaultPrevented>>

bodyVars == <<body, renderer, pos, wrap, ul>>

themeVars == <<themeName, themeRunner, themePc, accents>>

\* What the deck's actions leave alone.
sideVars == <<bodyVars, themeVars>>

vars == <<deckVars, bodyVars, themeVars>>

Has(e) == e \in env.page

N == env.resp.n

(* ----------------------------- navigation ------------------------------ *)

\* The state the callbacks read and write, as one record, so that the
\* listeners of one event and the statements of one callback can be applied
\* one after the other.
View ==
    [cur |-> current, vis |-> visible, ctr |-> counter, prog |-> progress,
     unc |-> uncaught, cr |-> cancelRequested, runs |-> runs, tp |-> temps,
     exp |-> exporting, hid |-> overlayHidden, tm |-> hideTimers,
     fat |-> fatals, box |-> fatalBoxes, dp |-> defaultPrevented]

Unset == <<"unset", 0, 0>>
CounterText(c, len) == <<"text", c + 1, len>>

\* Math.round(((c + 1) / len) * 100): NaN for 0/0, else the nearest integer,
\* a half rounded up.  (The quotient and the product are doubles: for
\* len < 40 their rounding errors never carry the value across a half, so
\* the result is the one of exact arithmetic.)
Pct(c, len) ==
    IF len = 0 THEN <<"NaN", 0, 0>>
    ELSE <<"pct", (200 * (c + 1) + len) \div (2 * len), 0>>

\* slideEls.forEach((el, i) => el.classList.toggle("visible", i === current))
Toggle(vis, els, c) ==
    (vis \ Range(els)) \cup {els[j] : j \in {k \in 1..Len(els) : k - 1 = c}}

\* updateUI of the hardened runner.
updateUI(v, els) ==
    [v EXCEPT !.vis = Toggle(v.vis, els, v.cur[2]),
              !.ctr = IF Has("counter") THEN CounterText(v.cur[2], Len(els)) ELSE @,
              !.prog = IF Has("progressFill") THEN Pct(v.cur[2], Len(els)) ELSE @]

\* n clamped as goto clamps it: first to 0 from below, then to len - 1.
Clamp(n, len) ==
    LET a == IF n < 0 THEN 0 ELSE n
    IN  IF a >= len THEN len - 1 ELSE a

\* goto of the hardened runner.  (scrollIntoView changes no modelled state.)
goto(v, els, n) ==
    IF Len(els) = 0 THEN v
    ELSE updateUI([v EXCEPT !.cur[2] = Clamp(n, Len(els))], els)

\* updateUI of the first runner: counter and progressFill are dereferenced
\* without a check, so a missing one throws after what precedes it.
updateUI1(v, els) ==
    LET t == [v EXCEPT !.vis = Toggle(v.vis, els, v.cur[1])]
    IN  IF ~Has("counter") THEN [t EXCEPT !.unc = @ \cup {"first:updateUI:counter"}]
        ELSE LET u == [t EXCEPT !.ctr = CounterText(v.cur[1], Len(els))]
             IN  IF ~Has("progressFill")
                 THEN [u EXCEPT !.unc = @ \cup {"first:updateUI:progressFill"}]
                 ELSE [u EXCEPT !.prog = Pct(v.cur[1], Len(els))]

\* goto of the first runner: no guard for an empty slideEls.
goto1(v, els, n) ==
    updateUI1([v EXCEPT !.cur[1] = Clamp(n, Len(els))], els)

\* goto of runner r.
Goto(r, v, els, n) == IF r = 1 THEN goto1(v, els, n) ELSE goto(v, els, n)

\* The runners that registered listener h, in the order they registered it.
Listeners(h) == SelectSeq(order, LAMBDA r : h \in steps[r])

\* The listeners of one event run in the order they were registered (a
\* listener that throws does not keep the next from running).  There are at
\* most two, one per runner.
Each(F(_, _), rs, v) ==
    IF Len(rs) = 0 THEN v
    ELSE IF Len(rs) = 1 THEN F(rs[1], v)
    ELSE F(rs[2], F(rs[1], v))

\* Every listener h moves its own runner by d.
Dispatch(h, v, d) ==
    Each(LAMBDA r, w : Goto(r, w, slideEls[r], w.cur[r] + d), Listeners(h), v)

SetView(v) ==
    /\ current' = v.cur
    /\ visible' = v.vis
    /\ counter' = v.ctr
    /\ progress' = v.prog
    /\ uncaught' = v.unc
    /\ cancelRequested' = v.cr
    /\ runs' = v.runs
    /\ temps' = v.tp
    /\ exporting' = v.exp
    /\ overlayHidden' = v.hid
    /\ hideTimers' = v.tm
    /\ fatals' = v.fat
    /\ fatalBoxes' = v.box
    /\ defaultPrevented' = v.dp

(* ------------------------------- set-up -------------------------------- *)

\* console.error(message, detail): line 210.
consoleError(log, message) == Append(log, message)

\* The box of showFatal without the removal of the one already in body: the
\* boxes stack.
stackBox(boxes, message) == Append(boxes, message)

\* qs("#fatalError") finds the first box in body, if any, and it is
\* removed; the new box is appended to body: lines 211-234.
replaceBox(boxes, message) ==
    Append(IF boxes = <<>> THEN boxes ELSE Tail(boxes), message)

\* showFatal: lines 209-235.
showFatal(v, message) ==
    [v EXCEPT !.fat = consoleError(@, message),
              !.box = replaceBox(@, message)]

\* qsa(".slide"): the slide sections of #stage.  (The only other .slide
\* elements the script ever puts in the document are the clones of an export
\* run, and no export starts while a runner is still loading: see
\* ExportClick.)
qsaSlides(children) == SelectSlides(children)

\* The set-up of the first runner, lines 8-199, in order.  The value is the
\* part at which it throws ("none": it runs to the end).
Parts1 ==
    <<"fetch", "json", "render", "state", "prev", "next", "key", "resize",
      "refreshCompact", "goto0", "export", "cancel", "gotoSlide", "none">>

PartNo(part) == CHOOSE k \in 1..Len(Parts1) : Parts1[k] = part

FirstRunnerThrowsAt ==
    IF ~env.resp.net THEN "fetch"
    ELSE IF ~env.resp.json THEN "json"
    ELSE IF N >= 1 /\ ~Has("stage") THEN "render"
    ELSE IF ~Has("prevBtn") THEN "prev"
    ELSE IF ~Has("nextBtn") THEN "next"
    ELSE IF ~Has("topbar") \/ ~Has("stage") THEN "refreshCompact"
    ELSE IF ~Has("counter") \/ ~Has("progressFill") THEN "goto0"
    ELSE IF ~Has("exportPdf") THEN "export"
    ELSE IF ~Has("cancelExport") THEN "cancel"
    ELSE "none"

\* The parts that have run when the first runner's set-up ends: those before
\* the one that throws, and goto(0) itself when it is updateUI that throws.
PartsDone1 ==
    LET t == FirstRunnerThrowsAt
    IN  {Parts1[k] : k \in 1..(PartNo(t) - 1)}
            \cup (IF t = "goto0" THEN {"goto0"} ELSE {})

Slides(r, n) == [i \in 1..n |-> SlideNode(r, i - 1)]

\* The first runner's content.json has arrived (or failed): lines 9-199.
FirstRunnerLoaded ==
    /\ pc[1] = "loading"
    /\ LET done == PartsDone1
           children == IF "render" \in done /\ Has("stage")
                       THEN stage \o Slides(1, N) ELSE stage
           els == IF "state" \in done THEN qsaSlides(children) ELSE <<>>
           v0 == [View EXCEPT !.cur[1] = 0,
                              !.unc = IF FirstRunnerThrowsAt = "none" THEN @
                                      ELSE @ \cup {"first:setup"}]
           v1 == IF "goto0" \in done THEN goto1(v0, els, 0) ELSE v0
       IN  /\ stage' = children
           /\ slideEls' = [slideEls EXCEPT ![1] = els]
           /\ steps' = [steps EXCEPT ![1] = done]
           /\ SetView(v1)
           /\ gotoSlide' = IF "gotoSlide" \in done THEN 1 ELSE gotoSlide
           /\ pc' = [pc EXCEPT ![1] = IF FirstRunnerThrowsAt = "none"
                                      THEN "ready" ELSE "aborted"]
    /\ order' = Append(order, 1)
    /\ UNCHANGED <<env, sideVars>>

\* The report the hardened runner's load ends with, "" when it succeeds:
\* lines 251-270.
LoadFailure ==
    IF ~env.resp.net \/ ~env.resp.ok \/ ~env.resp.json
    THEN "Could not load content.json."
    ELSE IF N = 0 THEN "content.json loaded, but contains 0 slides."
    ELSE ""

\* The listeners the hardened runner registers: lines 391-505.
PartsDone2 ==
    {"fetch", "json", "render", "state", "key", "resize", "refreshCompact",
     "goto0", "gotoSlide"}
        \cup (IF Has("prevBtn") THEN {"prev"} ELSE {})
        \cup (IF Has("nextBtn") THEN {"next"} ELSE {})
        \cup (IF Has("exportPdf") THEN {"export"} ELSE {})
        \cup (IF Has("cancelExport") THEN {"cancel"} ELSE {})

\* stage.innerHTML = "" and the forEach that appends one section per slide:
\* lines 301-363.
Render2(children) == Slides(2, N)

\* The hardened runner's content.json has arrived (or failed): lines 252-505.
HardenedLoaded ==
    /\ pc[2] = "loading"
    /\ IF LoadFailure # ""
       THEN /\ SetView(showFatal(View, LoadFailure))
            /\ pc' = [pc EXCEPT ![2] = "fatal"]
            /\ UNCHANGED <<stage, slideEls, steps, gotoSlide>>
       ELSE LET children == Render2(stage)
                els == qsaSlides(children)
                v0 == [View EXCEPT !.cur[2] = 0]
            IN  /\ stage' = children
                /\ slideEls' = [slideEls EXCEPT ![2] = els]
                /\ steps' = [steps EXCEPT ![2] = PartsDone2]
                /\ SetView(goto(v0, els, 0))
                /\ gotoSlide' = 2
                /\ pc' = [pc EXCEPT ![2] = "ready"]
    /\ order' = Append(order, 2)
    /\ UNCHANGED <<env, sideVars>>

\* The state when the script has run to its first awaits: the first runner
\* waits for fetch (line 8); the hardened runner has looked up #stage and
\* either reported it missing (lines 243-247) or waits for fetch (line 252).
DeckInit(envs) ==
    /\ env \in envs
    /\ pc = [r \in Runners |->
                IF r = 2 /\ ~Has("stage") THEN "fatal" ELSE "loading"]
    /\ fatals = IF Has("stage") THEN <<>>
                ELSE consoleError(<<>>, "index.html is missing #stage.")
    /\ fatalBoxes = IF Has("stage") THEN <<>>
                    ELSE replaceBox(<<>>, "index.html is missing #stage.")
    /\ defaultPrevented = FALSE
    /\ order = <<>>
    /\ steps = [r \in Runners |-> {}]
    /\ gotoSlide = 0
    /\ stage = IF Has("stage") /\ Has("loading") THEN <<LoadingNode>> ELSE <<>>
    /\ slideEls = [r \in Runners |-> <<>>]
    /\ current = [r \in Runners |-> 0]
    /\ visible = {}
    /\ counter = Unset
    /\ progress = Unset
    /\ cancelRequested = [r \in Runners |-> FALSE]
    /\ runs = [r \in Runners |-> <<>>]
    /\ temps = 0
    /\ exporting = FALSE
    /\ overlayHidden = TRUE
    /\ hideTimers = 0
    /\ uncaught = {}

(* ------------------------- buttons and keys --------------------------- *)

Keys == {" ", "ArrowRight", "ArrowLeft", "Enter"}

\* A click on #prevBtn: lines 105 and 394.
PrevClick ==
    /\ Has("prevBtn")
    /\ SetView(Dispatch("prev", View, -1))
    /\ UNCHANGED <<env, pc, order, steps, gotoSlide, stage, slideEls, sideVars>>

\* A click on #nextBtn: lines 106 and 395.
NextClick ==
    /\ Has("nextBtn")
    /\ SetView(Dispatch("next", View, 1))
    /\ UNCHANGED <<env, pc, order, steps, gotoSlide, stage, slideEls, sideVars>>

\* What a keydown listener adds to current: lines 109-113 and 398-404.
KeyDelta(key) ==
    IF key = " " \/ key = "ArrowRight" THEN 1
    ELSE IF key = "ArrowLeft" THEN -1
    ELSE 0

\* A keydown of key on window: every keydown listener runs, and on Space
\* each calls e.preventDefault().
KeyDownOn(key) ==
    /\ LET v == IF KeyDelta(key) = 0 THEN View
                ELSE Dispatch("key", View, KeyDelta(key))
       IN  SetView([v EXCEPT !.dp = (key = " " /\ Listeners("key") # <<>>)])
    /\ UNCHANGED <<env, pc, order, steps, gotoSlide, stage, slideEls, sideVars>>

KeyDown == \E key \in Keys : KeyDownOn(key)

\* The arguments window.gotoSlide is called with.
GotoArgs == -1 .. (2 * MaxSlides + 1)

\* A call of window.gotoSlide(n): lines 199 and 505.
GotoSlideTo(n) ==
    /\ gotoSlide # 0
    /\ SetView(Goto(gotoSlide, View, slideEls[gotoSlide], n))
    /\ UNCHANGED <<env, pc, order, steps, gotoSlide, stage, slideEls, sideVars>>

GotoSlideCall == \E n \in GotoArgs : GotoSlideTo(n)

(* ------------------------------- export -------------------------------- *)

\* One call of exportToPdf: where it is (pc: "settle60", "settle80",
\* "raster", "finalize", "done", or "thrown" when an exception ended it), its
\* loop index i, the nodes whose images addImage got, the pages of its pdf,
\* the names save was called with, and cancelAt: -1, or the number of slides
\* it had added or was working on when the cancel control was first used
\* since it started.
NewRun ==
    [pc |-> "settle60", i |-> 0, images |-> <<>>, pages |-> 0, saved |-> <<>>,
     cancelAt |-> -1]

Finished(run) == run.pc \in {"done", "thrown"}

Unfinished(rs) == {k \in 1..Len(rs) : ~Finished(rs[k])}

\* Where a new run of a runner is kept: in place of a finished one, else
\* after the others; 0 when MaxStacked runs are in flight.
FreeSlot(rs) ==
    IF \E k \in 1..Len(rs) : Finished(rs[k])
    THEN CHOOSE k \in 1..Len(rs) :
            Finished(rs[k]) /\ \A j \in 1..(k - 1) : ~Finished(rs[j])
    ELSE IF Len(rs) < MaxStacked THEN Len(rs) + 1 ELSE 0

Put(rs, run) ==
    IF FreeSlot(rs) = Len(rs) + 1 THEN Append(rs, run)
    ELSE [rs EXCEPT ![FreeSlot(rs)] = run]

LibsPresent == Has("jspdf") /\ Has("html2canvas")

\* exportToPdf of the hardened runner up to its first await: lines 431-440.
exportToPdf(v) ==
    IF ~LibsPresent
    THEN showFatal(v, "PDF export libraries missing.")
    ELSE [v EXCEPT !.cr[2] = FALSE,
                   !.exp = TRUE,
                   !.hid = IF Has("exportOverlay") THEN FALSE ELSE @,
                   !.runs[2] = Put(@, NewRun)]

\* exportToPdf of the first runner up to its first await: lines 138-144.
exportToPdf1(v) ==
    LET a == [v EXCEPT !.cr[1] = FALSE, !.exp = TRUE]
    IN  IF ~Has("exportOverlay")
        THEN [a EXCEPT !.unc = @ \cup {"first:exportToPdf"}]
        ELSE IF ~Has("exportStatus")
        THEN [a EXCEPT !.hid = FALSE, !.unc = @ \cup {"first:exportToPdf"}]
        ELSE [a EXCEPT !.hid = FALSE, !.runs[1] = Put(@, NewRun)]

\* Whether a click on #exportPdf makes runner r start a run.
Starts(r) ==
    /\ "export" \in steps[r]
    /\ IF r = 1 THEN Has("exportOverlay") /\ Has("exportStatus") ELSE LibsPresent

\* A click on #exportPdf: lines 195 and 498.  The user exports a deck that
\* has finished loading: neither runner is still waiting for content.json.
ExportClick ==
    /\ Has("exportPdf")
    /\ \A r \in Runners : pc[r] # "loading"
    /\ \A r \in Runners : Starts(r) => FreeSlot(runs[r]) # 0
    /\ LET starting == Cardinality({r \in Runners : Starts(r)})
           inFlight == Cardinality(Unfinished(runs[1]))
                          + Cardinality(Unfinished(runs[2]))
       IN  /\ hideTimers + inFlight + starting <= MaxTimers
           /\ temps + starting <= MaxTemps
    /\ ("export" \in steps[2] /\ ~LibsPresent) => Len(fatals) < MaxFatals
    /\ SetView(Each(LAMBDA r, w : IF r = 1 THEN exportToPdf1(w) ELSE exportToPdf(w),
                    Listeners("export"), View))
    /\ UNCHANGED <<env, pc, order, steps, gotoSlide, stage, slideEls, sideVars>>

Throw(r, k, v, where) ==
    [v EXCEPT !.runs[r][k].pc = "thrown", !.unc = @ \cup {where}]

\* Epilogue without its test of the flag: the run always goes on to save.
EpilogueAlwaysSaves(r, k, v) == [v EXCEPT !.runs[r][k].pc = "finalize"]

\* After the loop: lines 183-192 and 486-495.
Epilogue(r, k, v) ==
    IF ~v.cr[r]
    THEN [v EXCEPT !.runs[r][k].pc = "finalize"]
    ELSE [v EXCEPT !.exp = FALSE,
                   !.tm = @ + 1,
                   !.runs[r][k].pc = "done"]

\* The loop from its test at index i to the next await: lines 151-156 and
\* 447-451, and what follows the loop when it ends or breaks.
LoopFrom(r, k, v, i) ==
    LET els == slideEls[r]
    IN  IF i < Len(els) /\ v.cr[r]
        THEN Epilogue(r, k, [v EXCEPT !.runs[r][k].i = i])
        ELSE IF i < Len(els)
        THEN LET g == Goto(r, v, els, i)
             IN  IF g.unc # v.unc THEN [g EXCEPT !.runs[r][k].pc = "thrown"]
                 ELSE [g EXCEPT !.runs[r][k].i = i,
                                !.runs[r][k].pc = "settle80"]
        ELSE Epilogue(r, k, [v EXCEPT !.runs[r][k].i = i])

\* The 60 ms timer of a run fires: lines 146-156 and 442-451.
Settled60 ==
    \E r \in Runners : \E k \in 1..Len(runs[r]) :
        /\ runs[r][k].pc = "settle60"
        /\ IF r = 1 /\ ~Has("jspdf")
           THEN SetView(Throw(r, k, View, "first:exportToPdf"))
           ELSE SetView(LoopFrom(r, k, [View EXCEPT !.runs[r][k].pages = 1], 0))
        /\ UNCHANGED <<env, pc, order, steps, gotoSlide, stage, slideEls, sideVars>>

\* The 80 ms timer of a run fires: the slide is cloned, the clone is put in
\* a temp container appended to body, html2canvas is called: lines 157-168
\* and 453-473.
Settled80 ==
    \E r \in Runners : \E k \in 1..Len(runs[r]) :
        /\ runs[r][k].pc = "settle80"
        /\ LET v == [View EXCEPT !.tp = @ + 1]
           IN  IF r = 1 /\ ~Has("html2canvas")
               THEN SetView(Throw(r, k, v, "first:exportToPdf"))
               ELSE SetView([v EXCEPT !.runs[r][k].pc = "raster"])
        /\ UNCHANGED <<env, pc, order, steps, gotoSlide, stage, slideEls, sideVars>>

\* html2canvas resolves: the temp container is removed, the image is added,
\* a page is added unless the slide is the last, and the loop goes on:
\* lines 168-180 and 473-483.
RasterResolved ==
    \E r \in Runners : \E k \in 1..Len(runs[r]) :
        /\ runs[r][k].pc = "raster"
        /\ LET run == runs[r][k]
               els == slideEls[r]
               v == [View EXCEPT
                       !.tp = @ - 1,
                       !.runs[r][k].images = Append(@, els[run.i + 1]),
                       !.runs[r][k].pages =
                           IF run.i < Len(els) - 1 THEN @ + 1 ELSE @]
           IN  SetView(LoopFrom(r, k, v, run.i + 1))
        /\ UNCHANGED <<env, pc, order, steps, gotoSlide, stage, slideEls, sideVars>>

\* html2canvas rejects: the exception ends exportToPdf where it is.
RasterRejected ==
    \E r \in Runners : \E k \in 1..Len(runs[r]) :
        /\ runs[r][k].pc = "raster"
        /\ SetView(Throw(r, k, View,
                         IF r = 1 THEN "first:exportToPdf" ELSE "exportToPdf"))
        /\ UNCHANGED <<env, pc, order, steps, gotoSlide, stage, slideEls, sideVars>>

\* (content.title || "presentation") + ".pdf"
FileName ==
    <<IF env.resp.title # "" THEN env.resp.title ELSE "presentation", ".pdf">>

\* The 120 ms timer of a run fires: lines 186-192 and 489-495.
Finalized ==
    \E r \in Runners : \E k \in 1..Len(runs[r]) :
        /\ runs[r][k].pc = "finalize"
        /\ SetView([View EXCEPT !.runs[r][k].saved = Append(@, FileName),
                                !.runs[r][k].pc = "done",
                                !.exp = FALSE,
                                !.tm = @ + 1])
        /\ UNCHANGED <<env, pc, order, steps, gotoSlide, stage, slideEls, sideVars>>

\* A 400 ms timer fires: lines 192 and 495.
HideTimerFires ==
    /\ hideTimers > 0
    /\ SetView([View EXCEPT !.tm = @ - 1,
                            !.hid = IF Has("exportOverlay") THEN TRUE ELSE @])
    /\ UNCHANGED <<env, pc, order, steps, gotoSlide, stage, slideEls, sideVars>>

\* The cancel listener of the hardened runner: lines 499-503.
cancel(v) ==
    [v EXCEPT !.cr[2] = TRUE,
              !.hid = IF Has("exportOverlay") THEN TRUE ELSE @,
              !.exp = FALSE]

\* The cancel listener of the first runner: line 196.
cancel1(v) ==
    IF ~Has("exportOverlay")
    THEN [v EXCEPT !.cr[1] = TRUE, !.unc = @ \cup {"first:cancel"}]
    ELSE [v EXCEPT !.cr[1] = TRUE, !.hid = TRUE, !.exp = FALSE]

\* The slides a run has added or is working on.
Begun(run) ==
    IF run.pc \in {"settle80", "raster"} THEN run.i + 1 ELSE Len(run.images)

\* Every run in flight notes that the cancel control was used.
NoteCancel(v) ==
    [v EXCEPT !.runs = [r \in Runners |->
        [k \in 1..Len(v.runs[r]) |->
            IF Finished(v.runs[r][k]) \/ v.runs[r][k].cancelAt >= 0
            THEN v.runs[r][k]
            ELSE [v.runs[r][k] EXCEPT !.cancelAt = Begun(v.runs[r][k])]]]]

\* A click on #cancelExport.
CancelClick ==
    /\ Has("cancelExport")
    /\ SetView(NoteCancel(Each(LAMBDA r, w : IF r = 1 THEN cancel1(w) ELSE cancel(w),
                               Listeners("cancel"), View)))
    /\ UNCHANGED <<env, pc, order, steps, gotoSlide, stage, slideEls, sideVars>>


(* --------------------------- a slide's body ---------------------------- *)

\* Largest number of items of a body.
MaxItems == 4

\* Largest number of characters of an item.
MaxChars == 4

\* A string is a sequence of characters; an item of a body is a string or
\* something else (a number, an object).
\* "*" stands for the bullet character U+2022.
Bullet == "*"
Chars == {Bullet, "-", " ", "a"}

Strings == UNION {[1..m -> Chars] : m \in 0..MaxChars}

Str(s) == [str |-> TRUE, text |-> s]
NotAString == [str |-> FALSE, text |-> <<>>]

\* The items the longer bodies are made of.
Samples ==
    {Str(<<"a">>), Str(<<Bullet, " ", "a">>), Str(<<"-", " ", "a">>),
     Str(<<"-", "a">>), NotAString}

BodiesChecked ==
    UNION {[1..m -> Samples] : m \in 0..MaxItems}
        \cup {<<Str(s)>> : s \in Strings}

\* par.startsWith(b + " ")
StartsWithMarker(s, b) == Len(s) >= 2 /\ s[1] = b /\ s[2] = " "

\* par.startsWith("* ") || par.startsWith("- ")
IsBulletItem(s) == StartsWithMarker(s, Bullet) \/ StartsWithMarker(s, "-")

\* Where /^*\s|-\s/ matches at place p of s: the first alternative at
\* the start only, the second anywhere.
MatchesAt(s, p) ==
    /\ p + 1 <= Len(s)
    /\ s[p + 1] = " "
    /\ (p = 1 /\ s[p] = Bullet) \/ s[p] = "-"

\* The replace with the last match removed instead of the leftmost.
StripLastMarker(s) ==
    IF \E p \in 1..Len(s) : MatchesAt(s, p)
    THEN LET p == CHOOSE q \in 1..Len(s) :
                      MatchesAt(s, q) /\ \A o \in (q + 1)..Len(s) : ~MatchesAt(s, o)
         IN  SubSeq(s, 1, p - 1) \o SubSeq(s, p + 2, Len(s))
    ELSE s

\* par.replace(/^*\s|-\s/, ""): the leftmost match is removed.
StripMarker(s) ==
    IF \E p \in 1..Len(s) : MatchesAt(s, p)
    THEN LET p == CHOOSE q \in 1..Len(s) :
                      MatchesAt(s, q) /\ \A o \in 1..(q - 1) : ~MatchesAt(s, o)
         IN  SubSeq(s, 1, p - 1) \o SubSeq(s, p + 2, Len(s))
    ELSE s

\* A child of contentWrap: <<"p", <<text>>>> or <<"ul", texts of its items>>.
Paragraph(s) == <<"p", <<s>>>>
EmptyList == <<"ul", <<>>>>

\* The forEach callback of the hardened runner, on the children w, the list
\* variable u and the item par: lines 341-356.
renderItem(w, u, par) ==
    IF ~par.str THEN [wrap |-> w, ul |-> u]
    ELSE IF IsBulletItem(par.text)
    THEN LET w1 == IF u = 0 THEN Append(w, EmptyList) ELSE w
             u1 == IF u = 0 THEN Len(w) + 1 ELSE u
         IN  [wrap |-> [w1 EXCEPT ![u1][2] = Append(@, StripMarker(par.text))],
              ul |-> u1]
    ELSE [wrap |-> Append(w, Paragraph(par.text)), ul |-> u]

\* contentWrap.querySelector('ul'): the place of the first list, or 0.
FirstList(w) ==
    IF \E j \in 1..Len(w) : w[j][1] = "ul"
    THEN CHOOSE j \in 1..Len(w) :
            w[j][1] = "ul" /\ \A o \in 1..(j - 1) : w[o][1] # "ul"
    ELSE 0

\* The forEach callback of the first runner: lines 58-69.
renderItem1(w, u, par) ==
    IF ~par.str THEN [wrap |-> w, ul |-> u]
    ELSE IF IsBulletItem(par.text)
    THEN LET found == FirstList(w)
             w1 == IF found = 0 THEN Append(w, EmptyList) ELSE w
             u1 == IF found = 0 THEN Len(w) + 1 ELSE found
         IN  [wrap |-> [w1 EXCEPT ![u1][2] = Append(@, StripMarker(par.text))],
              ul |-> u1]
    ELSE [wrap |-> Append(w, Paragraph(par.text)), ul |-> u]

\* One turn of s.body.forEach.
RenderItem ==
    /\ pos < Len(body)
    /\ LET out == IF renderer = 1 THEN renderItem1(wrap, ul, body[pos + 1])
                  ELSE renderItem(wrap, ul, body[pos + 1])
       IN  wrap' = out.wrap /\ ul' = out.ul
    /\ pos' = pos + 1
    /\ UNCHANGED <<body, renderer, deckVars, themeVars>>

\* No body is being rendered.
BodyIdle ==
    /\ body = <<>>
    /\ renderer = 2
    /\ pos = 0
    /\ wrap = <<>>
    /\ ul = 0


(* ------------------------------ the theme ------------------------------ *)

\* A theme name is a sequence of characters; Absent is a content.json
\* without a theme.
Absent == <<"absent">>

UpperCase == <<"A", "B", "C", "E", "I", "K", "L", "N", "O", "P", "R", "S", "T", "U">>
LowerCase == <<"a", "b", "c", "e", "i", "k", "l", "n", "o", "p", "r", "s", "t", "u">>

Upper(c) ==
    IF \E j \in 1..Len(LowerCase) : LowerCase[j] = c
    THEN UpperCase[CHOOSE j \in 1..Len(LowerCase) : LowerCase[j] = c]
    ELSE c

Lower(c) ==
    IF \E j \in 1..Len(UpperCase) : UpperCase[j] = c
    THEN LowerCase[CHOOSE j \in 1..Len(UpperCase) : UpperCase[j] = c]
    ELSE c

\* String.prototype.toLowerCase
toLowerCase(name) == [j \in 1..Len(name) |-> Lower(name[j])]

Pink == <<"p", "i", "n", "k">>
Purple == <<"p", "u", "r", "p", "l", "e">>
Blue == <<"b", "l", "u", "e">>
Black == <<"b", "l", "a", "c", "k">>

\* The own properties of themeMap in the hardened runner: lines 273-278.
themeMap ==
    [name \in {Pink, Purple, Blue, Black} |->
        IF name = Pink THEN [accent |-> "#ff6ba6", accent2 |-> "#ff9ccf"]
        ELSE IF name = Purple THEN [accent |-> "#7c5cff", accent2 |-> "#b39bff"]
        ELSE IF name = Blue THEN [accent |-> "#2f7bff", accent2 |-> "#79b2ff"]
        ELSE [accent |-> "#1f1f23", accent2 |-> "#3a3a44"]]

\* The own properties of themeMap in the first runner: lines 12-14.
themeMap1 == [name \in {Pink} |-> themeMap[Pink]]

\* The properties an object literal inherits from Object.prototype whose
\* names are their own lower case: the only ones a lower-cased key can name.
Inherited ==
    {<<"c", "o", "n", "s", "t", "r", "u", "c", "t", "o", "r">>,
     <<"_", "_", "p", "r", "o", "t", "o", "_", "_">>}

\* What such a property gives: an object (truthy) without accent or accent2.
NoAccents == [accent |-> "undefined", accent2 |-> "undefined"]

\* map[key]: an own property, an inherited one, or undefined (falsy).
Lookup(map, key) ==
    IF key \in DOMAIN map THEN <<"own", map[key]>>
    ELSE IF key \in Inherited THEN <<"inherited", NoAccents>>
    ELSE <<"undefined", NoAccents>>

\* content.theme || "pink": an absent or empty theme is falsy.
OrPink(name) == IF name = Absent \/ name = <<>> THEN Pink ELSE name

\* themeMap[tKey] || themeMap.pink with tKey the lower-cased name: lines 15
\* and 279-280.
Resolve(map, name) ==
    LET found == Lookup(map, toLowerCase(OrPink(name)))
    IN  IF found[1] = "undefined" THEN map[Pink] ELSE found[2]

\* The names checked: every spelling of the four keys in upper and lower
\* case, no theme, and names that are no key.
Spellings(key) ==
    {name \in [1..Len(key) -> {key[j] : j \in 1..Len(key)}
                                 \cup {Upper(key[j]) : j \in 1..Len(key)}] :
        toLowerCase(name) = key}

ThemeNames ==
    Spellings(Pink) \cup Spellings(Purple) \cup Spellings(Blue)
        \cup Spellings(Black) \cup Inherited
        \cup {Absent, <<>>, <<"n", "e", "o", "n">>, <<"p", "i", "n", "k", "s">>,
              <<"t", "o", "S", "t", "r", "i", "n", "g">>,
              <<"C", "o", "n", "s", "t", "r", "u", "c", "t", "o", "r">>}

\* The theme is resolved and the two custom properties are set: lines 15-19
\* and 279-283.  (setProperty accepts any value, "undefined" included.)
ResolveTheme ==
    /\ themePc = "resolve"
    /\ accents' = Resolve(IF themeRunner = 1 THEN themeMap1 ELSE themeMap,
                          themeName)
    /\ themePc' = "contrast"
    /\ UNCHANGED <<themeName, themeRunner, deckVars, bodyVars>>

\* lum(theme.accent): hexToRgb calls hex.replace, which throws when the
\* theme has no accent.  In the hardened runner the catch of line 506
\* reports it and initialization ends; in the first runner it is uncaught.
\* Lines 22-31 and 286-298.
Contrast ==
    /\ themePc = "contrast"
    /\ IF accents.accent = "undefined"
       THEN /\ themePc' = "thrown"
            /\ IF themeRunner = 2
               THEN SetView(showFatal(View, "Unexpected error in app.js."))
               ELSE SetView([View EXCEPT !.unc = @ \cup {"first:setup"}])
       ELSE /\ themePc' = "render"
            /\ SetView(View)
    /\ UNCHANGED <<env, pc, order, steps, gotoSlide, stage, slideEls,
                   themeName, themeRunner, accents, bodyVars>>

\* No theme is being resolved.
ThemeIdle ==
    /\ themeName = Absent
    /\ themeRunner = 2
    /\ themePc = "render"
    /\ accents = themeMap[Pink]

(* --------------------------- specification ----------------------------- *)

\* The deck: set-up, navigation and export.  (How the body of one slide is
\* rendered is the subject of SpecBody.)
Init == DeckInit(Environments) /\ BodyIdle /\ ThemeIdle

Next ==
    \/ FirstRunnerLoaded
    \/ HardenedLoaded
    \/ PrevClick
    \/ NextClick
    \/ KeyDown
    \/ GotoSlideCall
    \/ ExportClick
    \/ Settled60
    \/ Settled80
    \/ RasterResolved
    \/ RasterRejected
    \/ Finalized
    \/ HideTimerFires
    \/ CancelClick

Spec == Init /\ [][Next]_vars

\* The deck with its timers and promises: a timer that was set fires, and
\* a promise of html2canvas settles, one way or the other.  Nothing is
\* assumed of the user or of the network.
Fairness ==
    /\ WF_vars(Settled60)
    /\ WF_vars(Settled80)
    /\ WF_vars(RasterResolved \/ RasterRejected)
    /\ WF_vars(Finalized)
    /\ WF_vars(HideTimerFires)

\* A full page and an untitled deck.
InitLive ==
    /\ DeckInit({e \in Environments :
                    e.page = Elements /\ e.resp \in Decks /\ e.resp.title = ""})
    /\ BodyIdle
    /\ ThemeIdle

SpecLive == InitLive /\ [][Next]_vars /\ Fairness

\* A full page and a deck of one slide.
OneSlide ==
    {[page |-> Elements,
      resp |-> [net |-> TRUE, ok |-> TRUE, json |-> TRUE, n |-> 1, title |-> ""]]}

\* The rendering of one slide's body, for every body of BodiesChecked and
\* both runners.
InitBody ==
    /\ DeckInit(OneSlide)
    /\ ThemeIdle
    /\ body \in BodiesChecked
    /\ renderer \in Runners
    /\ pos = 0
    /\ wrap = <<>>
    /\ ul = 0

NextBody == RenderItem

SpecBody == InitBody /\ [][NextBody]_vars

\* The resolution of the theme, for every name of ThemeNames and both
\* runners.
InitTheme ==
    /\ DeckInit(OneSlide)
    /\ BodyIdle
    /\ themeName \in ThemeNames
    /\ themeRunner \in Runners
    /\ themePc = "resolve"
    /\ accents = [accent |-> "", accent2 |-> ""]

NextTheme == ResolveTheme \/ Contrast

SpecTheme == InitTheme /\ [][NextTheme]_vars

(* ------------------------------- claims -------------------------------- *)

Max(a, b) == IF a >= b THEN a ELSE b
Min(a, b) == IF a <= b THEN a ELSE b

ClampedIndex(n) == Max(0, Min(n, N - 1))

\* The slide sections among the children of #stage.
StageSlides == SelectSlides(stage)

\* Both runners have stopped waiting for content.json.
Loaded == \A r \in Runners : pc[r] # "loading"

AllRuns == {<<r, k>> : r \in Runners, k \in 1..MaxStacked}
RunAt(x) == runs[x[1]][x[2]]
Started(x) == x[2] <= Len(runs[x[1]])

\* C1: on a deck of N >= 1 slides, goto(n) leaves current at
\* max(0, min(n, N-1)) for every integer n and throws nothing, and
\* 0 <= current < N holds after every call, click and key press.
C1_GotoClamps ==
    [][N >= 1 =>
         /\ \A r \in Runners :
               "goto0" \in steps'[r] => 0 <= current'[r] /\ current'[r] < N
         /\ \A n \in GotoArgs :
               GotoSlideTo(n) =>
                   /\ current'[gotoSlide] = ClampedIndex(n)
                   /\ uncaught' = uncaught]_vars

\* C2: on a deck of N >= 1 slides, once initialization has finished,
\* exactly one slide node of the stage is visible and it is the one at the
\* current index; right after initialization it is slide 0.
C2_OneVisible ==
    [][(N >= 1 /\ pc'[2] = "ready" /\ pc'[1] # "loading") =>
         /\ {x \in Range(SelectSlides(stage')) : x \in visible'}
               = {slideEls'[2][current'[2] + 1]}
         /\ ~Loaded => current'[2] = 0]_vars

\* '<deck title or "presentation">.pdf'
ExpectedName ==
    <<IF env.resp.title = "" THEN "presentation" ELSE env.resp.title, ".pdf">>

\* C3: an export run over an N-slide deck during which cancel is never
\* requested adds one image per slide in the order 0, 1, ..., N-1, ends with
\* a document of N pages, and calls save once with the deck's file name.
C3_ExportComplete ==
    N >= 1 =>
        \A x \in AllRuns :
            (Started(x) /\ RunAt(x).cancelAt = -1 /\ RunAt(x).pc # "thrown") =>
                /\ \A j \in 1..Len(RunAt(x).images) :
                      dataIndex(RunAt(x).images[j]) = j - 1
                /\ Len(RunAt(x).images) <= N
                /\ RunAt(x).pc \in {"finalize", "done"} =>
                      Len(RunAt(x).images) = N /\ RunAt(x).pages = N
                /\ RunAt(x).saved =
                      IF RunAt(x).pc = "done" THEN <<ExpectedName>> ELSE <<>>

\* The index the loop of a run tests next, when the run is at an await
\* that leads to the loop's test.
NextIndex(run) == IF run.pc = "settle60" THEN 0 ELSE run.i + 1

\* C4: when the flag is set as the loop of a run reaches iteration k < N,
\* the run ends there: slide k is not navigated to, cloned or added, save
\* is not called, exactly slides 0..k-1 are in the document, and the ended
\* run does nothing more.
C4_CancelStopsBeforeSlide ==
    [][\A r \in Runners : \A k \in 1..Len(runs[r]) :
         LET run == runs[r][k]
             after == runs'[r][k]
             j == NextIndex(run)
         IN  /\ ( /\ run.pc \in {"settle60", "raster"}
                  /\ after.pc \notin {run.pc, "thrown"}
                  /\ cancelRequested[r]
                  /\ j < Len(slideEls[r]) ) =>
                    /\ after.pc = "done"
                    /\ after.saved = <<>>
                    /\ after.images = SubSeq(slideEls[r], 1, j)
                    /\ after.i = j
                    /\ current' = current
                    /\ visible' = visible
                    /\ temps' <= temps
             /\ run.pc = "done" => after = run \/ after = NewRun]_vars

\* C4's case: a run that ended at the flag after it had added a slide.
C4_Witness ==
    \E x \in AllRuns :
        /\ Started(x)
        /\ RunAt(x).pc = "done"
        /\ RunAt(x).saved = <<>>
        /\ RunAt(x).i >= 1
        /\ RunAt(x).i < Len(slideEls[x[1]])
        /\ Len(RunAt(x).images) = RunAt(x).i

\* C5: a run during which the cancel control is used, at any moment before
\* its save call, never calls save and adds no slide after the one it was
\* working on.  (Stated of the runs of the hardened runner, whose lines the
\* claim names.)
C5_CancelPreventsSave ==
    \A x \in AllRuns :
        (x[1] = 2 /\ Started(x) /\ RunAt(x).cancelAt >= 0) =>
            /\ RunAt(x).saved = <<>>
            /\ Len(RunAt(x).images) <= RunAt(x).cancelAt

\* A load failure: #stage missing, the request failed or was answered with
\* an error status, the body is not JSON, or the deck has no slides.
LoadFails ==
    ~Has("stage") \/ ~env.resp.net \/ ~env.resp.ok \/ ~env.resp.json \/ N = 0

InitialStage == IF Has("stage") /\ Has("loading") THEN <<LoadingNode>> ELSE <<>>

\* C7: on a load failure initialization stops after exactly one fatal
\* report: the stage keeps its children, no slide node is in it, current is
\* never set, and no navigation or export listener is registered.
C7_LoadFailureAborts ==
    LoadFails =>
        /\ stage = InitialStage
        /\ \A r \in Runners : steps[r] \subseteq {"fetch", "json"}
        /\ gotoSlide = 0
        /\ Len(fatals) <= 1
        /\ pc[2] # "loading" => Len(fatals) = 1

\* C8: when #counter exists its text is "<current+1> / <N>" after every
\* navigation; when it does not, navigation still completes without error.
C8_CounterText ==
    (N >= 1 /\ pc[2] = "ready") =>
        /\ Has("counter") => counter = <<"text", current[2] + 1, N>>
        /\ ~Has("counter") => "first:updateUI:counter" \notin uncaught

\* a / b rounded to the nearest integer, a half rounded up.
RoundHalfUp(a, b) == (2 * a + b) \div (2 * b)

\* C9: when #progressFill exists its width is round(100*(current+1)/N)
\* percent after every navigation; the value lies in [round(100/N), 100]
\* and is 100 exactly when current = N-1.
C9_ProgressWidth ==
    (N >= 1 /\ pc[2] = "ready" /\ Has("progressFill")) =>
        /\ progress = <<"pct", RoundHalfUp(100 * (current[2] + 1), N), 0>>
        /\ progress[2] >= RoundHalfUp(100, N)
        /\ progress[2] <= 100
        /\ progress[2] = 100 <=> current[2] = N - 1

\* C10: after initialization on a deck of N >= 1 slides with all markup
\* present, in whatever order the two fetches complete, the stage holds N
\* slide nodes with data-index 0..N-1 in order, and the slide nodes a
\* runner toggles are exactly those.
C10_StageHoldsDeck ==
    (N >= 1 /\ env.page = Elements /\ env.resp.ok /\ Loaded) =>
        /\ [j \in 1..Len(StageSlides) |-> dataIndex(StageSlides[j])]
              = [j \in 1..N |-> j - 1]
        /\ \A r \in Runners :
              "state" \in steps[r] => Range(slideEls[r]) = Range(StageSlides)

\* What the claim expects of the items visited so far: a bullet item joins
\* the list of the run it continues, or opens a new list where its run begins.
RECURSIVE ExpectedChildren(_)
ExpectedChildren(items) ==
    IF items = <<>> THEN <<>>
    ELSE LET before == ExpectedChildren(SubSeq(items, 1, Len(items) - 1))
             s == items[Len(items)].text
             continues == Len(items) >= 2 /\ IsBulletItem(items[Len(items) - 1].text)
         IN  IF ~IsBulletItem(s) THEN Append(before, Paragraph(s))
             ELSE IF continues
                  THEN [before EXCEPT ![Len(before)][2] = Append(@, StripMarker(s))]
                  ELSE Append(before, <<"ul", <<StripMarker(s)>>>>)

AllStrings(items) == \A j \in 1..Len(items) : items[j].str

\* C6: for a body of string items, the rendered children follow the order
\* of the items: every maximal run of consecutive bullet items is one list
\* at the place of that run, every other string is one paragraph, and two
\* runs separated by a non-bullet item are two lists.  (Stated of the
\* hardened runner's rendering.)
C6_ListPerBulletRun ==
    (renderer = 2 /\ AllStrings(body)) =>
        wrap = ExpectedChildren(SubSeq(body, 1, pos))

\* The pair the claim expects for a name: the pair of the key it spells,
\* whatever the case of its letters, else the pair of pink.
ExpectedAccents(name) ==
    IF name # Absent /\ toLowerCase(name) \in DOMAIN themeMap
    THEN themeMap[toLowerCase(name)]
    ELSE themeMap[Pink]

\* C11: theme resolution never fails: a name that spells no key of the
\* table, and an absent theme, resolve to the pair of pink and
\* initialization goes on to render; a name that differs from a key only
\* in case resolves to that key's pair.  (Stated of the hardened runner.)
C11_ThemeFallback ==
    (themeRunner = 2 /\ themePc # "resolve") =>
        /\ accents = ExpectedAccents(themeName)
        /\ themePc # "thrown"

\* C12: an export click while jsPDF or html2canvas is missing shows one
\* fatal report and changes nothing else: the exporting state is not set,
\* the overlay is not shown, the flags and the current indexes keep their
\* values, no slide is navigated to, no run starts and nothing is thrown.
C12_MissingLibsOnlyReport ==
    [][(ExportClick /\ ~LibsPresent /\ "export" \in steps[2]) =>
         /\ Len(fatals') = Len(fatals) + 1
         /\ exporting' = exporting
         /\ overlayHidden' = overlayHidden
         /\ cancelRequested' = cancelRequested
         /\ current' = current
         /\ visible' = visible
         /\ runs' = runs
         /\ uncaught' = uncaught]_vars

\* C13: every error raised in initialization or in a later interaction is
\* delivered to showFatal; none escapes unreported.  (Stated of the errors
\* raised in the hardened runner, whose try and catch the claim names.)
C13_ErrorsReported == "exportToPdf" \notin uncaught

\* C15: after any sequence of fatal reports body holds at most one
\* #fatalError box, and it shows the message of the most recent report.
C15_OneFatalBox ==
    /\ Len(fatalBoxes) <= 1
    /\ fatals # <<>> => fatalBoxes = <<fatals[Len(fatals)]>>

\* C15's case: a second report has replaced the box of the first.
C15_Witness ==
    /\ Len(fatals) = 2
    /\ fatalBoxes = <<fatals[2]>>

\* Where the claim puts the index after a move by d from c.
Moved(c, d) == Max(0, Min(c + d, N - 1))

\* C16: on a deck of N >= 1 slides, one Space or ArrowRight keydown or one
\* click on next moves current from c to min(c+1, N-1); one ArrowLeft
\* keydown or click on previous moves it to max(c-1, 0); any other key
\* leaves current and the visible slide as they were; Space suppresses the
\* default action, the arrow keys do not.
C16_OneStepPerEvent ==
    [][(N >= 1 /\ pc[2] = "ready") =>
         /\ \A key \in Keys :
               KeyDownOn(key) =>
                   /\ defaultPrevented' = (key = " ")
                   /\ \A r \in Runners :
                         "key" \in steps[r] =>
                             current'[r] = Moved(current[r], KeyDelta(key))
                   /\ KeyDelta(key) = 0 => visible' = visible
         /\ NextClick =>
               \A r \in Runners :
                   "next" \in steps[r] => current'[r] = Moved(current[r], 1)
         /\ PrevClick =>
               \A r \in Runners :
                   "prev" \in steps[r] => current'[r] = Moved(current[r], -1)]_vars

\* A step ends run x: its exportToPdf is over.
Ends(x) ==
    /\ Started(x)
    /\ ~Finished(RunAt(x))
    /\ Finished(runs'[x[1]][x[2]])

\* The runs of the hardened runner.
HardenedRuns == {x \in AllRuns : x[1] = 2}

\* C14: every export run that starts eventually ends; the step that ends
\* it leaves body without the exporting state and the hide timer set, and
\* once that timer is set the overlay gets hidden.  (Stated of the runs of
\* the hardened runner.)
C14_RunsEndClean ==
    /\ \A x \in HardenedRuns :
          (Started(x) /\ ~Finished(RunAt(x)))
              ~> (Started(x) /\ Finished(RunAt(x)))
    /\ [][\A x \in HardenedRuns :
             Ends(x) => ~exporting' /\ hideTimers' > 0]_vars
    /\ (hideTimers > 0) ~> overlayHidden

\* A string without its first two characters.
DropTwo(s) == SubSeq(s, 3, Len(s))

\* C17: an item that begins with a marker and a space adds one list entry
\* whose text is the item without exactly its first two characters,
\* whatever follows them; any other string is appended unchanged as a
\* paragraph; an item that is not a string adds no node.
C17_StripsOneMarker ==
    [][pos < Len(body) =>
         LET par == body[pos + 1]
         IN  IF ~par.str THEN wrap' = wrap
             ELSE IF IsBulletItem(par.text)
             THEN /\ ul' \in 1..Len(wrap')
                  /\ wrap'[ul'][1] = "ul"
                  /\ wrap'[ul'][2] =
                        Append(IF ul' <= Len(wrap) THEN wrap[ul'][2] ELSE <<>>,
                               DropTwo(par.text))
             ELSE wrap' = Append(wrap, Paragraph(par.text))]_vars

\* C17's case: the entry of an item that holds a second marker and space
\* after its first.
C17_Witness ==
    /\ pos = 1
    /\ body[1].str
    /\ IsBulletItem(body[1].text)
    /\ \E p \in 3..Len(body[1].text) : MatchesAt(body[1].text, p)
    /\ wrap = <<<<"ul", <<DropTwo(body[1].text)>>>>>>

\* The first runner registered no listener and exposed no goto: only the
\* hardened runner answers clicks, keys and timers.
HardenedAlone ==
    steps[1] \cap {"prev", "next", "key", "export", "cancel", "gotoSlide"} = {}

\* C18: at the moment an export run clones slide i its runner's current is
\* i and slide i is the visible slide, whatever keys and clicks arrived
\* during the settle delay.  (Stated of the hardened runner where it alone
\* handles the events.)
C18_CloneSeesCurrent ==
    [][HardenedAlone =>
         \A k \in 1..Len(runs[2]) :
             (runs[2][k].pc = "settle80" /\ runs'[2][k].pc = "raster") =>
                 /\ current[2] = runs[2][k].i
                 /\ slideEls[2][runs[2][k].i + 1] \in visible]_vars

\* C19: while an export run is in progress and no cancel was requested
\* for it, the overlay is shown and body is in the exporting state, also
\* when the run started shortly after the one before it ended.  (Stated
\* of the hardened runner where it alone exports, so that its runs are
\* strictly one after another.)
C19_OverlayWhileExporting ==
    (HardenedAlone /\ Has("exportOverlay")) =>
        \A k \in 1..Len(runs[2]) :
            (~Finished(runs[2][k]) /\ runs[2][k].cancelAt = -1) =>
                exporting /\ ~overlayHidden

\* The runs a step starts.
StartedBy ==
    {x \in AllRuns :
        /\ x[2] <= Len(runs'[x[1]])
        /\ runs'[x[1]][x[2]] = NewRun
        /\ ~Started(x) \/ Finished(RunAt(x))}

\* The runners whose current a step changes.
MovedBy == {r \in Runners : current'[r] # current[r]}

\* C20: with all markup and both libraries present, one click on export
\* starts exactly one run, and one navigation key press or button click
\* performs one goto, on one current index.
C20_OneHandlerPerEvent ==
    [][(env.page = Elements /\ N >= 1 /\ Loaded /\ pc[2] = "ready") =>
         /\ ExportClick => Cardinality(StartedBy) = 1
         /\ (NextClick \/ PrevClick \/ KeyDown) =>
               Cardinality(MovedBy) <= 1]_vars

====
